---- MODULE Spec2Model ----
(***************************************************************************)
(* A model of cmd/infracost: the version gate (checkOutputVersion), the    *)
(* `output` / `report` command handler (outputCmd's RunE) and main with    *)
(* its update-check goroutine and deferred error handling.                 *)
(*                                                                         *)
(* Go strings whose characters matter (version strings) are sequences of   *)
(* one-character strings; strings that are only compared as a whole        *)
(* (flag values, file names) are TLA+ strings.                             *)
(***************************************************************************)
EXTENDS Integers, Sequences, FiniteSets, TLC

VARIABLES
    \* ---- version gate, run on its own
    v,              \* the argument of checkOutputVersion
    gateResult,     \* "pending" | "accept" | "reject"
    \* ---- outputCmd RunE
    pc,             \* position in RunE
    cmdName,        \* cmd.Name(): "output" | "report"
    args,           \* positional arguments (the deprecated report command)
    pathChanged,    \* cmd.Flags().Changed("path")
    paths,          \* the --path flag values (glob patterns)
    fs,             \* file name -> what reading and parsing it yields
    inputFiles,     \* inputFiles
    nextFile,       \* index of the range loop over inputFiles
    inputs,         \* inputs ([]output.ReportInput)
    format,         \* the --format flag value, once read
    fieldsChanged,  \* cmd.Flags().Changed("fields")
    fieldsFlag,     \* the --fields flag value
    optsFields,     \* opts.Fields
    warnings,       \* the warnings printed so far, in order
    combineCalls,   \* the input lists output.Combine was called with
    combined,       \* the combined report
    rendererCalls,  \* the renderers invoked, in order
    renderOut,      \* b, err of the renderer call
    stdout,         \* what fmt.Println wrote
    result,         \* how RunE ended
    \* ---- main and the update-check goroutine
    mainPc,         \* position of main
    goPc,           \* position of the goroutine of startUpdateCheck
    appErr,         \* appErr
    loadErr,        \* what cfg.LoadFromEnv returned
    execOutcome,    \* how rootCmd.Execute ends
    unexpectedErr,  \* the recovered panic value
    updateInfo,     \* what update.CheckForUpdate returned
    chanClosed,     \* updateMessageChan is closed
    sends,          \* completed sends on updateMessageChan
    recvs,          \* completed receives on updateMessageChan
    received,       \* the value the receive yielded
    log,            \* the handlers run by the deferred function, in order
    exitCode        \* the process exit status, once it ended

gateVars == <<v, gateResult>>
outVars == <<pc, cmdName, args, pathChanged, paths, fs, inputFiles, nextFile,
             inputs, format, fieldsChanged, fieldsFlag, optsFields, warnings,
             combineCalls, combined, rendererCalls, renderOut, stdout, result>>
mainVars == <<mainPc, goPc, appErr, loadErr, execOutcome, unexpectedErr,
              updateInfo, chanClosed, sends, recvs, received, log, exitCode>>
vars == <<gateVars, outVars, mainVars>>

\* ------------------------------------------------------------------------
\* Bounds of the model
\* ------------------------------------------------------------------------
MaxLen == 5
MaxPaths == 2
MaxArgs == 2
MaxFields == 2

\* ------------------------------------------------------------------------
\* Strings as character sequences
\* ------------------------------------------------------------------------
Digits == {"0", "1", "2", "3", "4", "5", "6", "7", "8", "9"}
Letters == {"v", "a", "r", "c"}

\* The byte value of a character (Go compares strings bytewise).
Code(c) ==
    CASE c = "+" -> 43 [] c = "-" -> 45 [] c = "." -> 46
      [] c = "0" -> 48 [] c = "1" -> 49 [] c = "2" -> 50 [] c = "3" -> 51
      [] c = "4" -> 52 [] c = "5" -> 53 [] c = "6" -> 54 [] c = "7" -> 55
      [] c = "8" -> 56 [] c = "9" -> 57
      [] c = "a" -> 97 [] c = "c" -> 99 [] c = "r" -> 114 [] c = "v" -> 118

\* s[from:] of Go, with from counted from 0.
Drop(s, from) == SubSeq(s, from + 1, Len(s))
\* s[:to] of Go.
Take(s, to) == SubSeq(s, 1, to)

\* x < y on Go strings: bytewise lexicographic order.
RECURSIVE StrLess(_, _)
StrLess(x, y) ==
    IF y = <<>> THEN FALSE
    ELSE IF x = <<>> THEN TRUE
    ELSE IF x[1] # y[1] THEN Code(x[1]) < Code(y[1])
    ELSE StrLess(Tail(x), Tail(y))

\* strings.HasPrefix(s, "v")
HasPrefixV(s) == Len(s) >= 1 /\ s[1] = "v"

\* ------------------------------------------------------------------------
\* golang.org/x/mod/semver, as checkOutputVersion uses it
\* ------------------------------------------------------------------------
NoParse == [ok |-> FALSE, t |-> <<>>, rest |-> <<>>]

\* The length of the longest prefix of digits of s.
RECURSIVE DigitRun(_)
DigitRun(s) ==
    IF s # <<>> /\ s[1] \in Digits THEN 1 + DigitRun(Tail(s)) ELSE 0

\* semver.parseInt: a decimal number without leading zeros.
parseInt(s) ==
    IF s = <<>> THEN NoParse
    ELSE IF s[1] \notin Digits THEN NoParse
    ELSE LET i == DigitRun(s) IN
         IF s[1] = "0" /\ i # 1 THEN NoParse
         ELSE [ok |-> TRUE, t |-> Take(s, i), rest |-> Drop(s, i)]

isIdentChar(c) == c \in Letters \/ c \in Digits \/ c = "-"

\* semver.isBadNum: all digits, more than one, the first a zero.
isBadNum(s) ==
    LET i == DigitRun(s) IN i = Len(s) /\ i > 1 /\ s[1] = "0"

\* semver.isNum
isNum(s) == DigitRun(s) = Len(s)

\* The scan of semver.parsePrerelease from position i (0-based), the current
\* identifier starting at start: it stops at a "+" or at the end.
RECURSIVE ScanPrerelease(_, _, _)
ScanPrerelease(s, i, start) ==
    IF i < Len(s) /\ s[i + 1] # "+"
    THEN IF ~isIdentChar(s[i + 1]) /\ s[i + 1] # "." THEN NoParse
         ELSE IF s[i + 1] = "."
              THEN IF start = i \/ isBadNum(SubSeq(s, start + 1, i))
                   THEN NoParse
                   ELSE ScanPrerelease(s, i + 1, i + 1)
              ELSE ScanPrerelease(s, i + 1, start)
    ELSE IF start = i \/ isBadNum(SubSeq(s, start + 1, i))
         THEN NoParse
         ELSE [ok |-> TRUE, t |-> Take(s, i), rest |-> Drop(s, i)]

parsePrerelease(s) ==
    IF s = <<>> \/ s[1] # "-" THEN NoParse ELSE ScanPrerelease(s, 1, 1)

\* The scan of semver.parseBuild: it runs to the end of the string, and a
\* "+" inside is no identifier character.
RECURSIVE ScanBuild(_, _, _)
ScanBuild(s, i, start) ==
    IF i < Len(s)
    THEN IF ~isIdentChar(s[i + 1]) /\ s[i + 1] # "." THEN NoParse
         ELSE IF s[i + 1] = "."
              THEN IF start = i THEN NoParse ELSE ScanBuild(s, i + 1, i + 1)
              ELSE ScanBuild(s, i + 1, start)
    ELSE IF start = i THEN NoParse
         ELSE [ok |-> TRUE, t |-> Take(s, i), rest |-> Drop(s, i)]

parseBuild(s) ==
    IF s = <<>> \/ s[1] # "+" THEN NoParse ELSE ScanBuild(s, 1, 1)

Invalid == [ok |-> FALSE, major |-> <<>>, minor |-> <<>>, patch |-> <<>>,
            prerelease |-> <<>>]
Parsed(ma, mi, pa, pre) ==
    [ok |-> TRUE, major |-> ma, minor |-> mi, patch |-> pa, prerelease |-> pre]

\* The tail of semver.parse after the patch number: an optional prerelease,
\* an optional build, and nothing else.
parseTail(ma, mi, pa, s) ==
    LET pre == IF s # <<>> /\ s[1] = "-" THEN parsePrerelease(s)
               ELSE [ok |-> TRUE, t |-> <<>>, rest |-> s]
    IN IF ~pre.ok THEN Invalid
       ELSE LET bld == IF pre.rest # <<>> /\ pre.rest[1] = "+"
                       THEN parseBuild(pre.rest)
                       ELSE [ok |-> TRUE, t |-> <<>>, rest |-> pre.rest]
            IN IF ~bld.ok THEN Invalid
               ELSE IF bld.rest # <<>> THEN Invalid
               ELSE Parsed(ma, mi, pa, pre.t)

\* semver.parse: vMAJOR[.MINOR[.PATCH[-PRERELEASE][+BUILD]]]
parse(s) ==
    IF s = <<>> \/ s[1] # "v" THEN Invalid
    ELSE LET ma == parseInt(Drop(s, 1)) IN
      IF ~ma.ok THEN Invalid
      ELSE IF ma.rest = <<>> THEN Parsed(ma.t, <<"0">>, <<"0">>, <<>>)
      ELSE IF ma.rest[1] # "." THEN Invalid
      ELSE LET mi == parseInt(Drop(ma.rest, 1)) IN
        IF ~mi.ok THEN Invalid
        ELSE IF mi.rest = <<>> THEN Parsed(ma.t, mi.t, <<"0">>, <<>>)
        ELSE IF mi.rest[1] # "." THEN Invalid
        ELSE LET pa == parseInt(Drop(mi.rest, 1)) IN
          IF ~pa.ok THEN Invalid
          ELSE parseTail(ma.t, mi.t, pa.t, pa.rest)

\* semver.compareInt: decimal strings without leading zeros.
compareInt(x, y) ==
    IF x = y THEN 0
    ELSE IF Len(x) < Len(y) THEN -1
    ELSE IF Len(x) > Len(y) THEN 1
    ELSE IF StrLess(x, y) THEN -1 ELSE 1

\* semver.nextIdent: the length of the identifier s starts with.
RECURSIVE IdentLen(_)
IdentLen(s) == IF s # <<>> /\ s[1] # "." THEN 1 + IdentLen(Tail(s)) ELSE 0

\* The loop of semver.comparePrerelease over the dot-separated identifiers.
RECURSIVE comparePrereleaseLoop(_, _)
comparePrereleaseLoop(x, y) ==
    IF x # <<>> /\ y # <<>>
    THEN LET x1 == Tail(x)
             y1 == Tail(y)
             dx == Take(x1, IdentLen(x1))
             dy == Take(y1, IdentLen(y1))
         IN IF dx # dy
            THEN IF isNum(dx) # isNum(dy)
                 THEN (IF isNum(dx) THEN -1 ELSE 1)
                 ELSE IF isNum(dx) /\ Len(dx) < Len(dy) THEN -1
                 ELSE IF isNum(dx) /\ Len(dx) > Len(dy) THEN 1
                 ELSE IF StrLess(dx, dy) THEN -1 ELSE 1
            ELSE comparePrereleaseLoop(Drop(x1, IdentLen(x1)),
                                       Drop(y1, IdentLen(y1)))
    ELSE IF x = <<>> THEN -1 ELSE 1

\* semver.comparePrerelease
comparePrerelease(x, y) ==
    IF x = y THEN 0
    ELSE IF x = <<>> THEN 1
    ELSE IF y = <<>> THEN -1
    ELSE comparePrereleaseLoop(x, y)

\* semver.Compare: an invalid version is less than a valid one and equal to
\* another invalid one.
Compare(x, y) ==
    LET pv == parse(x)
        pw == parse(y)
    IN IF ~pv.ok /\ ~pw.ok THEN 0
       ELSE IF ~pv.ok THEN -1
       ELSE IF ~pw.ok THEN 1
       ELSE IF compareInt(pv.major, pw.major) # 0
            THEN compareInt(pv.major, pw.major)
       ELSE IF compareInt(pv.minor, pw.minor) # 0
            THEN compareInt(pv.minor, pw.minor)
       ELSE IF compareInt(pv.patch, pw.patch) # 0
            THEN compareInt(pv.patch, pw.patch)
       ELSE comparePrerelease(pv.prerelease, pw.prerelease)

\* ------------------------------------------------------------------------
\* The version gate
\* ------------------------------------------------------------------------
minOutputVersion == <<"0", ".", "1">>
maxOutputVersion == <<"0", ".", "1">>

\* if !strings.HasPrefix(v, "v") { v = "v" + v }
Normalize(s) == IF ~HasPrefixV(s) THEN <<"v">> \o s ELSE s

\* A gate that compares the version as it is written.
checkOutputVersionNoPrefix(s) ==
    /\ Compare(s, <<"v">> \o minOutputVersion) >= 0
    /\ Compare(s, <<"v">> \o maxOutputVersion) <= 0

checkOutputVersion(s) ==
    /\ Compare(Normalize(s), <<"v">> \o minOutputVersion) >= 0
    /\ Compare(Normalize(s), <<"v">> \o maxOutputVersion) <= 0

\* ------------------------------------------------------------------------
\* The version gate run on its own
\* ------------------------------------------------------------------------
Alphabet == {"v", "0", "1", "2", ".", "-", "+"}

\* Every string over Alphabet of at most n characters.
StringsUpTo(n) == UNION {[1..k -> Alphabet] : k \in 0..n}

\* Longer versions: a patch number, prereleases, build metadata.
LongVersions ==
    { <<"v", "0", ".", "1", ".", "0">>,
      <<"v", "0", ".", "1", ".", "1">>,
      <<"0", ".", "1", ".", "0", "-", "1">>,
      <<"v", "0", ".", "1", ".", "0", "-", "r", "c", ".", "1">>,
      <<"v", "0", ".", "1", ".", "0", "-", "0", "1">>,
      <<"0", ".", "1", ".", "0", "+", "2">>,
      <<"v", "0", ".", "1", ".", "0", "+", "0", "1", ".", "a">>,
      <<"v", "0", ".", "1", ".", "0", "+", "a", "+", "a">>,
      <<"v", "0", ".", "1", ".", "0", "-", "a", "+", "1">>,
      <<"v", "0", ".", "1", ".", "0", ".", "0">>,
      <<"0", ".", "1", "0">>,
      <<"1", "0", ".", "0", ".", "0">>,
      <<"v", "v", "0", ".", "1", ".", "0">> }

VersionInputs == StringsUpTo(MaxLen) \cup LongVersions

GateIdle == v = <<>> /\ gateResult = "idle"

\* checkOutputVersion(v), called once.
CheckOutputVersion ==
    /\ gateResult = "pending"
    /\ gateResult' = IF checkOutputVersion(v) THEN "accept" ELSE "reject"
    /\ UNCHANGED <<v, outVars, mainVars>>

\* ------------------------------------------------------------------------
\* outputCmd: the values its RunE works on
\* ------------------------------------------------------------------------
Files == {"a.json", "b.json"}
Patterns == {"none*.json", "a.json", "*.json"}

\* filepath.Glob on the two files: the matches, sorted.
Glob(p) ==
    CASE p = "a.json" -> <<"a.json">>
      [] p = "*.json" -> <<"a.json", "b.json">>
      [] OTHER -> <<>>

\* The versions the documents of the model carry: one the gate accepts and
\* one it rejects.
DocVersions == { <<"0", ".", "1">>, <<"0", ".", "2">> }

\* What ioutil.ReadFile and output.Load yield for a file.
Unreadable == [kind |-> "unreadable", version |-> <<>>]
Unparsable == [kind |-> "unparsable", version |-> <<>>]
Doc(ver) == [kind |-> "doc", version |-> ver]
Contents == {Unreadable, Unparsable} \cup {Doc(ver) : ver \in DocVersions}

\* Every sequence over S of at most n elements.
SeqsUpTo(S, n) == UNION {[1..k -> S] : k \in 0..n}

RECURSIVE Flatten(_)
Flatten(ss) == IF ss = <<>> THEN <<>> ELSE Head(ss) \o Flatten(Tail(ss))

\* Format identifiers, as character sequences.
TableStr == <<"t", "a", "b", "l", "e">>
JsonStr == <<"j", "s", "o", "n">>
HtmlStr == <<"h", "t", "m", "l">>
DiffStr == <<"d", "i", "f", "f">>
Formats == { TableStr, JsonStr, HtmlStr, DiffStr,
             <<"T", "A", "B", "L", "E">>, <<"J", "s", "o", "n">>,
             <<"x", "m", "l">> }

\* unicode.ToLower on the letters of the model.
LowerChar(c) ==
    CASE c = "T" -> "t" [] c = "A" -> "a" [] c = "B" -> "b" [] c = "L" -> "l"
      [] c = "E" -> "e" [] c = "J" -> "j" [] c = "S" -> "s" [] c = "O" -> "o"
      [] c = "N" -> "n" [] c = "H" -> "h" [] c = "M" -> "m" [] c = "D" -> "d"
      [] c = "I" -> "i" [] c = "F" -> "f" [] c = "X" -> "x"
      [] OTHER -> c

\* strings.ToLower
ToLower(s) == [i \in 1..Len(s) |-> LowerChar(s[i])]

validFields == <<"price", "monthlyQuantity", "unit", "hourlyCost", "monthlyCost">>
\* The default of the fields flag, and the initial value of fields.
DefaultFields == <<"monthlyQuantity", "unit", "monthlyCost">>
\* The identifiers a caller asks for in the model; "bogus" is not valid.
FieldNames == {"price", "monthlyCost", "bogus"}

contains(arr, e) == \E i \in 1..Len(arr) : arr[i] = e

\* Results of RunE, and errors.
Running == [kind |-> "running", msg |-> "", detail |-> <<>>]
ReturnedNil == [kind |-> "nil", msg |-> "", detail |-> <<>>]
NoErr == [kind |-> "noerr", msg |-> "", detail |-> <<>>]
ReadError == [kind |-> "error", msg |-> "Error reading JSON file", detail |-> <<>>]
ParseError == [kind |-> "error", msg |-> "Error parsing JSON file", detail |-> <<>>]
\* "Invalid Infracost JSON file version. Supported versions are %s <= x <= %s"
VersionError ==
    [kind |-> "error", msg |-> "Invalid Infracost JSON file version",
     detail |-> minOutputVersion \o <<" <= x <= ">> \o maxOutputVersion]
\* ui.PrintUsageErrorAndExit(cmd, "No path specified ...")
UsageExit == [kind |-> "exit", msg |-> "No path specified", detail |-> <<>>]

Warning(k, f) == [kind |-> k, field |-> f]

\* ------------------------------------------------------------------------
\* internal/output: the combiner and the renderers
\* ------------------------------------------------------------------------
RECURSIVE GroupKeys(_, _)
GroupKeys(ins, seen) ==
    IF ins = <<>> THEN <<>>
    ELSE IF Head(ins).filename \in seen THEN GroupKeys(Tail(ins), seen)
    ELSE <<Head(ins).filename>> \o GroupKeys(Tail(ins), seen \cup {Head(ins).filename})

\* output.Combine: one group per value of the group key (the file name), in
\* first-seen order.
Combine(ins) == [called |-> TRUE, groups |-> GroupKeys(ins, {})]
NotCombined == [called |-> FALSE, groups |-> <<>>]

\* The bytes a renderer returns for a report.
Rendered(renderer, report, fields) ==
    [by |-> renderer, groups |-> report.groups, fields |-> fields]
NoBytes == [by |-> "", groups |-> <<>>, fields |-> <<>>]
\* The error of a renderer that fails: it identifies the format.
RenderError(renderer) ==
    [kind |-> "error", msg |-> "render failed", detail |-> <<renderer>>]
NotRendered == [b |-> NoBytes, err |-> NoErr]

\* ------------------------------------------------------------------------
\* outputCmd: RunE
\* ------------------------------------------------------------------------
OutIdle ==
    /\ pc = "idle" /\ cmdName = "output" /\ args = <<>>
    /\ pathChanged = FALSE /\ paths = <<>>
    /\ fs = [f \in Files |-> Unreadable]
    /\ inputFiles = <<>> /\ nextFile = 1 /\ inputs = <<>>
    /\ format = TableStr /\ fieldsChanged = FALSE /\ fieldsFlag = DefaultFields
    /\ optsFields = <<>> /\ warnings = <<>> /\ combineCalls = <<>>
    /\ combined = NotCombined /\ rendererCalls = <<>>
    /\ renderOut = NotRendered /\ stdout = <<>> /\ result = Running

\* The command line and the files RunE starts from. The format and fields
\* flags are drawn where RunE reads them.
InitOutput ==
    /\ pc = "start"
    /\ cmdName \in {"output", "report"}
    /\ IF cmdName = "report"
       THEN /\ args \in SeqsUpTo(Files, MaxArgs)
            /\ pathChanged = FALSE /\ paths = <<>>
       ELSE /\ args = <<>>
            /\ pathChanged \in BOOLEAN
            /\ paths \in IF pathChanged
                         THEN SeqsUpTo(Patterns, MaxPaths) \ {<<>>}
                         ELSE {<<>>}
    /\ fs \in [Files -> Contents]
    /\ inputFiles = <<>> /\ nextFile = 1 /\ inputs = <<>>
    /\ format = TableStr /\ fieldsChanged = FALSE /\ fieldsFlag = DefaultFields
    /\ optsFields = <<>> /\ warnings = <<>> /\ combineCalls = <<>>
    /\ combined = NotCombined /\ rendererCalls = <<>>
    /\ renderOut = NotRendered /\ stdout = <<>> /\ result = Running

\* Lines 311-327: the input files, from the arguments of the deprecated
\* report command or from the globs of --path.
ResolveInputFiles ==
    /\ pc = "start"
    /\ IF cmdName = "report"
       THEN /\ inputFiles' = args
            /\ pc' = "load"
            /\ UNCHANGED result
       ELSE IF ~pathChanged
            THEN /\ result' = UsageExit
                 /\ pc' = "exited"
                 /\ UNCHANGED inputFiles
            ELSE /\ inputFiles' = Flatten([i \in 1..Len(paths) |-> Glob(paths[i])])
                 /\ pc' = "load"
                 /\ UNCHANGED result
    /\ UNCHANGED <<cmdName, args, pathChanged, paths, fs, nextFile, inputs,
                   format, fieldsChanged, fieldsFlag, optsFields, warnings,
                   combineCalls, combined, rendererCalls, renderOut, stdout>>
    /\ UNCHANGED <<gateVars, mainVars>>

\* One pass of the loop of lines 330-351 that lets a document with a
\* rejected version through.
LoadFileSkipVersion ==
    /\ pc = "load"
    /\ nextFile <= Len(inputFiles)
    /\ LET f == inputFiles[nextFile]
           c == fs[f]
       IN IF c.kind = "unreadable"
          THEN /\ result' = ReadError /\ pc' = "done"
               /\ UNCHANGED <<inputs, nextFile>>
          ELSE IF c.kind = "unparsable"
          THEN /\ result' = ParseError /\ pc' = "done"
               /\ UNCHANGED <<inputs, nextFile>>
          ELSE /\ inputs' = Append(inputs, [filename |-> f, version |-> c.version])
               /\ nextFile' = nextFile + 1
               /\ UNCHANGED <<pc, result>>
    /\ UNCHANGED <<cmdName, args, pathChanged, paths, fs, inputFiles,
                   format, fieldsChanged, fieldsFlag, optsFields, warnings,
                   combineCalls, combined, rendererCalls, renderOut, stdout>>
    /\ UNCHANGED <<gateVars, mainVars>>

\* One pass of the loop of lines 330-351: read the file, parse it, check
\* its version, append it to inputs.
LoadFile ==
    /\ pc = "load"
    /\ nextFile <= Len(inputFiles)
    /\ LET f == inputFiles[nextFile]
           c == fs[f]
       IN IF c.kind = "unreadable"
          THEN /\ result' = ReadError /\ pc' = "done"
               /\ UNCHANGED <<inputs, nextFile>>
          ELSE IF c.kind = "unparsable"
          THEN /\ result' = ParseError /\ pc' = "done"
               /\ UNCHANGED <<inputs, nextFile>>
          ELSE IF ~checkOutputVersion(c.version)
          THEN /\ result' = VersionError /\ pc' = "done"
               /\ UNCHANGED <<inputs, nextFile>>
          ELSE /\ inputs' = Append(inputs, [filename |-> f, version |-> c.version])
               /\ nextFile' = nextFile + 1
               /\ UNCHANGED <<pc, result>>
    /\ UNCHANGED <<cmdName, args, pathChanged, paths, fs, inputFiles,
                   format, fieldsChanged, fieldsFlag, optsFields, warnings,
                   combineCalls, combined, rendererCalls, renderOut, stdout>>
    /\ UNCHANGED <<gateVars, mainVars>>

\* One warning for every identifier of c that is not a valid field, in order.
RECURSIVE InvalidFieldWarnings(_)
InvalidFieldWarnings(c) ==
    IF c = <<>> THEN <<>>
    ELSE (IF ~contains(validFields, Head(c))
          THEN <<Warning("InvalidField", Head(c))>> ELSE <<>>)
         \o InvalidFieldWarnings(Tail(c))

\* A field selection that keeps an explicitly empty list.
SelectedFieldsNoDefault(changed, c) == IF changed THEN c ELSE DefaultFields

\* A field selection that drops the identifiers that are not valid.
SelectedFieldsFiltered(changed, c) ==
    IF changed /\ Len(c) # 0
    THEN SelectSeq(c, LAMBDA f : contains(validFields, f))
    ELSE DefaultFields

\* Lines 357-369: the value of fields. It starts as the default list and
\* is replaced by the flag's value only when the flag was set to a list
\* that is not empty.
SelectedFields(changed, c) ==
    IF changed /\ Len(c) # 0 THEN c ELSE DefaultFields

\* Lines 358-368: the warnings of the field validation.
FieldWarnings(changed, c) ==
    IF ~changed THEN <<>>
    ELSE IF Len(c) = 0 THEN <<Warning("FieldsEmpty", "")>>
    ELSE InvalidFieldWarnings(c)

\* Lines 353-377, reached when the loop over inputFiles ends: read the
\* format flag, validate the fields flag, build opts.
ReadFlags ==
    /\ pc = "load"
    /\ nextFile > Len(inputFiles)
    /\ \E fmt \in Formats, ch \in BOOLEAN :
         \E c \in IF ch THEN SeqsUpTo(FieldNames, MaxFields) ELSE {DefaultFields} :
            /\ format' = fmt
            /\ fieldsChanged' = ch
            /\ fieldsFlag' = c
            /\ optsFields' = SelectedFields(ch, c)
            /\ warnings' = warnings \o FieldWarnings(ch, c)
    /\ pc' = "combine"
    /\ UNCHANGED <<cmdName, args, pathChanged, paths, fs, inputFiles, nextFile,
                   inputs, combineCalls, combined, rendererCalls, renderOut,
                   stdout, result>>
    /\ UNCHANGED <<gateVars, mainVars>>

\* Line 379: combined := output.Combine(inputs, opts)
CallCombine ==
    /\ pc = "combine"
    /\ combineCalls' = Append(combineCalls, [inputs |-> Len(inputs), fields |-> optsFields])
    /\ combined' = Combine(inputs)
    /\ pc' = "render"
    /\ UNCHANGED <<cmdName, args, pathChanged, paths, fs, inputFiles, nextFile,
                   inputs, format, fieldsChanged, fieldsFlag, optsFields,
                   warnings, rendererCalls, renderOut, stdout, result>>
    /\ UNCHANGED <<gateVars, mainVars>>

\* Lines 386-388: the warning that fields is only supported for the table
\* format. The flag value is compared as it was written.
FieldsTableWarning(changed, fmt) ==
    IF changed /\ fmt # TableStr
    THEN <<Warning("FieldsOnlyTable", "")>> ELSE <<>>

\* A renderer selection that has no case for diff.
SelectRendererNoDiff(fmt) ==
    LET l == ToLower(fmt)
    IN IF l = JsonStr THEN "ToJSON"
       ELSE IF l = HtmlStr THEN "ToHTML"
       ELSE "ToTable"

\* Lines 389-398: switch strings.ToLower(format)
SelectRenderer(fmt) ==
    LET l == ToLower(fmt)
    IN IF l = JsonStr THEN "ToJSON"
       ELSE IF l = HtmlStr THEN "ToHTML"
       ELSE IF l = DiffStr THEN "ToDiff"
       ELSE "ToTable"

\* Lines 386-398: the warning, then the call of the selected renderer,
\* which returns bytes or an error.
Render ==
    /\ pc = "render"
    /\ warnings' = warnings \o FieldsTableWarning(fieldsChanged, format)
    /\ LET r == SelectRenderer(format)
       IN /\ rendererCalls' = Append(rendererCalls, r)
          /\ \E fails \in BOOLEAN :
                renderOut' = IF fails
                             THEN [b |-> NoBytes, err |-> RenderError(r)]
                             ELSE [b |-> Rendered(r, combined, optsFields),
                                   err |-> NoErr]
    /\ pc' = "finish"
    /\ UNCHANGED <<cmdName, args, pathChanged, paths, fs, inputFiles, nextFile,
                   inputs, format, fieldsChanged, fieldsFlag, optsFields,
                   combineCalls, combined, stdout, result>>
    /\ UNCHANGED <<gateVars, mainVars>>

\* A print that does not wait for the error check.
PrintedAlways(out) == <<out.b>>

\* Lines 399-403: fmt.Println(string(b)) runs only past the error check.
Printed(out) == IF out.err # NoErr THEN <<>> ELSE <<out.b>>

\* Lines 399-405: what RunE returns after rendering.
Returned(out) == IF out.err # NoErr THEN out.err ELSE ReturnedNil

\* Lines 399-405: return the renderer's error, or print and return nil.
Finish ==
    /\ pc = "finish"
    /\ stdout' = stdout \o Printed(renderOut)
    /\ result' = Returned(renderOut)
    /\ pc' = "done"
    /\ UNCHANGED <<cmdName, args, pathChanged, paths, fs, inputFiles, nextFile,
                   inputs, format, fieldsChanged, fieldsFlag, optsFields,
                   warnings, combineCalls, combined, rendererCalls, renderOut>>
    /\ UNCHANGED <<gateVars, mainVars>>

OutputNext ==
    \/ ResolveInputFiles
    \/ LoadFile
    \/ ReadFlags
    \/ CallCombine
    \/ Render
    \/ Finish

\* ------------------------------------------------------------------------
\* main, its deferred function and the update-check goroutine
\* ------------------------------------------------------------------------
Handled(h, e) == [h |-> h, err |-> e]

MainIdle ==
    /\ mainPc = "idle" /\ goPc = "none" /\ appErr = "nil" /\ loadErr = "nil"
    /\ execOutcome = "none" /\ unexpectedErr = "nil" /\ updateInfo = "nil"
    /\ chanClosed = FALSE /\ sends = 0 /\ recvs = 0 /\ received = "none"
    /\ log = <<>> /\ exitCode = -1

InitMain ==
    /\ mainPc = "init" /\ goPc = "none" /\ appErr = "nil" /\ loadErr = "nil"
    /\ execOutcome = "none" /\ unexpectedErr = "nil" /\ updateInfo = "nil"
    /\ chanClosed = FALSE /\ sends = 0 /\ recvs = 0 /\ received = "none"
    /\ log = <<>> /\ exitCode = -1

\* The process runs until os.Exit or the return of main.
Alive == exitCode = -1

\* Lines 26-47: make the channel, appErr = cfg.LoadFromEnv(), register the
\* deferred function.
LoadFromEnv ==
    /\ mainPc = "init"
    /\ \E e \in {"nil", "LoadFromEnvErr"} :
          /\ loadErr' = e
          /\ appErr' = e
    /\ mainPc' = "start"
    /\ UNCHANGED <<goPc, execOutcome, unexpectedErr, updateInfo, chanClosed,
                   sends, recvs, received, log, exitCode>>
    /\ UNCHANGED <<gateVars, outVars>>

\* Line 49, lines 174-183: start the goroutine.
StartUpdateCheck ==
    /\ mainPc = "start"
    /\ goPc' = "check"
    /\ mainPc' = "execute"
    /\ UNCHANGED <<appErr, loadErr, execOutcome, unexpectedErr, updateInfo,
                   chanClosed, sends, recvs, received, log, exitCode>>
    /\ UNCHANGED <<gateVars, outVars>>

\* Line 171: appErr = rootCmd.Execute(). The assignment happens when
\* Execute returns; a panic leaves appErr as it was.
ExecuteAppErr(o, old) ==
    IF o = "ok" THEN "nil"
    ELSE IF o = "error" THEN "ExecuteErr"
    ELSE old

\* Lines 51-171: build the root command and run it. Execute returns nil or
\* an error, panics, or a command ends the process itself (os.Exit(0) of
\* the root PreRun, ui.PrintUsageErrorAndExit).
Execute ==
    /\ mainPc = "execute"
    /\ \E o \in {"ok", "error", "panic", "exit0", "exit1"} :
          /\ execOutcome' = o
          /\ appErr' = ExecuteAppErr(o, appErr)
          /\ IF o \in {"exit0", "exit1"}
             THEN /\ mainPc' = "osExit"
                  /\ exitCode' = IF o = "exit0" THEN 0 ELSE 1
             ELSE /\ mainPc' = "deferCLI"
                  /\ UNCHANGED exitCode
    /\ UNCHANGED <<goPc, loadErr, unexpectedErr, updateInfo, chanClosed,
                   sends, recvs, received, log>>
    /\ UNCHANGED <<gateVars, outVars>>

\* Lines 33-35: if appErr != nil { handleCLIError(cfg, appErr) }
DeferCLIError ==
    /\ mainPc = "deferCLI"
    /\ log' = IF appErr # "nil"
              THEN Append(log, Handled("handleCLIError", appErr)) ELSE log
    /\ mainPc' = "deferRecover"
    /\ UNCHANGED <<goPc, appErr, loadErr, execOutcome, unexpectedErr,
                   updateInfo, chanClosed, sends, recvs, received, exitCode>>
    /\ UNCHANGED <<gateVars, outVars>>

\* Lines 37-40: unexpectedErr := recover(), handled when it is not nil.
DeferRecover ==
    /\ mainPc = "deferRecover"
    /\ unexpectedErr' = IF execOutcome = "panic" THEN "panic" ELSE "nil"
    /\ log' = IF execOutcome = "panic"
              THEN Append(log, Handled("handleUnexpectedErr", "panic")) ELSE log
    /\ mainPc' = "recv"
    /\ UNCHANGED <<goPc, appErr, loadErr, execOutcome, updateInfo, chanClosed,
                   sends, recvs, received, exitCode>>
    /\ UNCHANGED <<gateVars, outVars>>

\* A goroutine that sends only when there is an update to announce.
AfterCheckSendIfUpdate(info) == IF info # "nil" THEN "send" ELSE "end"

\* Lines 176-180: whatever CheckForUpdate returned, the goroutine goes on
\* to the send.
AfterCheck(info) == "send"

\* Lines 176-179: update.CheckForUpdate returns; its error is only logged.
GoCheckForUpdate ==
    /\ Alive
    /\ goPc = "check"
    /\ \E info \in {"nil", "info"} :
          /\ updateInfo' = info
          /\ goPc' = AfterCheck(info)
    /\ UNCHANGED <<mainPc, appErr, loadErr, execOutcome, unexpectedErr,
                   chanClosed, sends, recvs, received, log, exitCode>>
    /\ UNCHANGED <<gateVars, outVars>>

\* Line 42, lines 228-240 and line 180: the receive of handleUpdateMessage
\* meets the goroutine's send on the unbuffered channel (or finds the
\* channel closed and yields nil); the update message is printed when the
\* value is not nil.
HandleUpdateMessage ==
    /\ mainPc = "recv"
    /\ IF goPc = "send" /\ ~chanClosed
       THEN /\ sends' = sends + 1
            /\ received' = updateInfo
            /\ goPc' = "close"
       ELSE /\ chanClosed
            /\ received' = "nil"
            /\ UNCHANGED <<sends, goPc>>
    /\ recvs' = recvs + 1
    /\ log' = Append(log, Handled("handleUpdateMessage", received'))
    /\ mainPc' = "exit"
    /\ UNCHANGED <<appErr, loadErr, execOutcome, unexpectedErr, updateInfo,
                   chanClosed, exitCode>>
    /\ UNCHANGED <<gateVars, outVars>>

\* Line 181: close(c)
GoClose ==
    /\ Alive
    /\ goPc = "close"
    /\ chanClosed' = TRUE
    /\ goPc' = "end"
    /\ UNCHANGED <<mainPc, appErr, loadErr, execOutcome, unexpectedErr,
                   updateInfo, sends, recvs, received, log, exitCode>>
    /\ UNCHANGED <<gateVars, outVars>>

\* Lines 44-46: the exit status when main ends through its deferred function.
DeferredExitCode(app, unexpected) ==
    IF app # "nil" \/ unexpected # "nil" THEN 1 ELSE 0

\* Lines 44-47: os.Exit(1) on an error or a recovered panic; otherwise the
\* deferred function returns and the process ends with status 0.
DeferExit ==
    /\ mainPc = "exit"
    /\ exitCode' = DeferredExitCode(appErr, unexpectedErr)
    /\ mainPc' = "ended"
    /\ UNCHANGED <<goPc, appErr, loadErr, execOutcome, unexpectedErr,
                   updateInfo, chanClosed, sends, recvs, received, log>>
    /\ UNCHANGED <<gateVars, outVars>>

MainNext ==
    \/ LoadFromEnv
    \/ StartUpdateCheck
    \/ Execute
    \/ DeferCLIError
    \/ DeferRecover
    \/ HandleUpdateMessage
    \/ DeferExit
    \/ GoCheckForUpdate
    \/ GoClose

\* ------------------------------------------------------------------------
\* Specifications
\* ------------------------------------------------------------------------
\* The output command.
Init == InitOutput /\ GateIdle /\ MainIdle
Next == OutputNext
Spec == Init /\ [][Next]_vars

\* The version gate on every version of VersionInputs.
InitVersion ==
    /\ v \in VersionInputs /\ gateResult = "pending"
    /\ OutIdle /\ MainIdle
NextVersion == CheckOutputVersion
SpecVersion == InitVersion /\ [][NextVersion]_vars

\* main with the update-check goroutine.
InitMainOnly == InitMain /\ GateIdle /\ OutIdle
SpecMain == InitMainOnly /\ [][MainNext]_vars

\* The Go scheduler runs every goroutine that can run, and
\* update.CheckForUpdate returns.
FairSpecMain == SpecMain /\ WF_vars(MainNext)

\* ------------------------------------------------------------------------
\* Semantic versions, stated from the grammar (independently of the parser)
\* ------------------------------------------------------------------------
\* The position of the first c in s, or 0.
RECURSIVE IndexOf(_, _)
IndexOf(s, c) ==
    IF s = <<>> THEN 0
    ELSE IF s[1] = c THEN 1
    ELSE IF IndexOf(Tail(s), c) = 0 THEN 0 ELSE 1 + IndexOf(Tail(s), c)

\* The parts of s between its dots.
RECURSIVE SplitDots(_)
SplitDots(s) ==
    LET d == IndexOf(s, ".")
    IN IF d = 0 THEN <<s>>
       ELSE <<SubSeq(s, 1, d - 1)>> \o SplitDots(SubSeq(s, d + 1, Len(s)))

AllDigits(s) == \A i \in 1..Len(s) : s[i] \in Digits
\* A number without leading zeros.
IsNumber(s) == s # <<>> /\ AllDigits(s) /\ (Len(s) = 1 \/ s[1] # "0")
IsIdent(s) == s # <<>> /\ \A i \in 1..Len(s) : isIdentChar(s[i])

DigitValue(c) == Code(c) - 48
RECURSIVE NumberValue(_)
NumberValue(s) ==
    IF s = <<>> THEN 0
    ELSE 10 * NumberValue(SubSeq(s, 1, Len(s) - 1)) + DigitValue(s[Len(s)])

\* s split into core, prerelease and build: the build starts at the first
\* "+", the prerelease at the first "-" before it.
Anatomy(s) ==
    LET body == Tail(s)
        plus == IndexOf(body, "+")
        front == IF plus = 0 THEN body ELSE SubSeq(body, 1, plus - 1)
        dash == IndexOf(front, "-")
    IN [core |-> SplitDots(IF dash = 0 THEN front ELSE SubSeq(front, 1, dash - 1)),
        hasPre |-> dash # 0,
        pre |-> IF dash = 0 THEN <<>>
                ELSE SplitDots(SubSeq(front, dash + 1, Len(front))),
        hasBuild |-> plus # 0,
        build |-> IF plus = 0 THEN <<>>
                  ELSE SplitDots(SubSeq(body, plus + 1, Len(body)))]

\* vMAJOR[.MINOR[.PATCH[-PRERELEASE][+BUILD]]]
WellFormed(s) ==
    /\ s # <<>>
    /\ s[1] = "v"
    /\ LET a == Anatomy(s)
       IN /\ Len(a.core) \in 1..3
          /\ \A i \in 1..Len(a.core) : IsNumber(a.core[i])
          /\ (a.hasPre \/ a.hasBuild) => Len(a.core) = 3
          /\ a.hasPre =>
                \A i \in 1..Len(a.pre) :
                    /\ IsIdent(a.pre[i])
                    /\ AllDigits(a.pre[i]) => IsNumber(a.pre[i])
          /\ a.hasBuild => \A i \in 1..Len(a.build) : IsIdent(a.build[i])

\* <<major, minor, patch>> of a well-formed version, as numbers.
Triple(s) ==
    LET c == Anatomy(s).core
    IN <<NumberValue(c[1]),
         IF Len(c) >= 2 THEN NumberValue(c[2]) ELSE 0,
         IF Len(c) >= 3 THEN NumberValue(c[3]) ELSE 0>>

TripleLess(a, b) ==
    \/ a[1] < b[1]
    \/ a[1] = b[1] /\ a[2] < b[2]
    \/ a[1] = b[1] /\ a[2] = b[2] /\ a[3] < b[3]

\* s >= r and s <= r in semantic-version order, r a release (no prerelease):
\* a prerelease of r comes before r.
AtLeastRelease(s, r) ==
    \/ TripleLess(Triple(r), Triple(s))
    \/ Triple(s) = Triple(r) /\ ~Anatomy(s).hasPre
AtMostRelease(s, r) ==
    \/ TripleLess(Triple(s), Triple(r))
    \/ Triple(s) = Triple(r)

WithV(s) == IF s # <<>> /\ s[1] = "v" THEN s ELSE <<"v">> \o s

InSupportedRange(s) ==
    /\ WellFormed(WithV(s))
    /\ AtLeastRelease(WithV(s), <<"v", "0", ".", "1">>)
    /\ AtMostRelease(WithV(s), <<"v", "0", ".", "1">>)

\* ------------------------------------------------------------------------
\* The claims
\* ------------------------------------------------------------------------
GateRan == gateResult \in {"accept", "reject"}

\* C1: checkOutputVersion(v) is true exactly when v, with a missing "v"
\* prefix added, is a well-formed semantic version in [0.1, 0.1]; "0.1" and
\* "v0.1" are accepted, "0.0" and "0.2" rejected, and a malformed string is
\* rejected.
C1_GateAcceptsExactlyRange ==
    GateRan =>
        /\ (gateResult = "accept") <=> InSupportedRange(v)
        /\ v \in {<<"0", ".", "1">>, <<"v", "0", ".", "1">>} => gateResult = "accept"
        /\ v \in {<<"0", ".", "0">>, <<"0", ".", "2">>} => gateResult = "reject"
        /\ ~WellFormed(WithV(v)) => gateResult = "reject"

C1_Witness == gateResult = "accept" /\ v = <<"0", ".", "1">>

\* ---- the output command
RejectedDocument(f) == fs[f].kind = "doc" /\ ~checkOutputVersion(fs[f].version)
HasRejectedInput == \E i \in 1..Len(inputFiles) : RejectedDocument(inputFiles[i])
AllInputsAreDocuments == \A i \in 1..Len(inputFiles) : fs[inputFiles[i]].kind = "doc"
NothingProduced == combineCalls = <<>> /\ rendererCalls = <<>> /\ stdout = <<>>
HasWarning(k) == \E i \in 1..Len(warnings) : warnings[i].kind = k
\* RunE has read the flags (it is past the loop over the input files).
FlagsRead == pc \in {"combine", "render", "finish"} \/ (pc = "done" /\ combineCalls # <<>>)
\* RunE has called the renderer.
RenderingReached == pc = "finish" \/ (pc = "done" /\ combineCalls # <<>>)

\* C2: if any input document, at any position, has a version the gate
\* rejects, Combine is never called, no renderer is invoked, nothing is
\* printed, and the run ends with an error: the version-range error naming
\* the supported range when every input is a document.
C2_RejectedVersionAbortsBatch ==
    HasRejectedInput =>
        /\ NothingProduced
        /\ pc \in {"load", "done"}
        /\ pc = "done" =>
              /\ result.kind = "error"
              /\ AllInputsAreDocuments =>
                    /\ result.msg = "Invalid Infracost JSON file version"
                    /\ result.detail = <<"0", ".", "1", " <= x <= ", "0", ".", "1">>

\* A rejected document that follows an accepted one ended the run.
C2_Witness ==
    /\ pc = "done" /\ result = VersionError
    /\ inputs # <<>> /\ Len(inputFiles) >= 2

IsValidField(f) == f \in {"price", "monthlyQuantity", "unit", "hourlyCost", "monthlyCost"}
InvalidRequested == SelectSeq(fieldsFlag, LAMBDA f : ~IsValidField(f))
InvalidWarned ==
    LET w == SelectSeq(warnings, LAMBDA x : x.kind = "InvalidField")
    IN [i \in 1..Len(w) |-> w[i].field]
CombinerGot(fields) == \A i \in 1..Len(combineCalls) : combineCalls[i].fields = fields

C4_DefaultFields ==
    FlagsRead =>
        /\ (~fieldsChanged \/ fieldsFlag = <<>>) =>
              /\ optsFields = <<"monthlyQuantity", "unit", "monthlyCost">>
              /\ CombinerGot(<<"monthlyQuantity", "unit", "monthlyCost">>)
        /\ fieldsChanged /\ fieldsFlag = <<>> =>
              /\ HasWarning("FieldsEmpty")
              /\ ~HasWarning("InvalidField")
        /\ ~fieldsChanged =>
              ~HasWarning("FieldsEmpty") /\ ~HasWarning("InvalidField")

C4_Witness ==
    /\ pc = "done" /\ stdout # <<>>
    /\ fieldsChanged /\ fieldsFlag = <<>> /\ HasWarning("FieldsEmpty")

\* a and b are the same up to the case of their letters.
EqualFold(a, b) ==
    Len(a) = Len(b) /\ \A i \in 1..Len(a) : LowerChar(a[i]) = LowerChar(b[i])

\* C5: a run that reaches rendering invokes exactly one renderer, on the
\* combined report: json selects ToJSON, html ToHTML, diff ToDiff, table
\* ToTable, and an identifier that is none of them falls back to ToTable.
C5_ExactlyOneRenderer ==
    /\ Len(rendererCalls) <= 1
    /\ ~RenderingReached => rendererCalls = <<>>
    /\ RenderingReached =>
          /\ Len(rendererCalls) = 1
          /\ format = JsonStr => rendererCalls[1] = "ToJSON"
          /\ format = HtmlStr => rendererCalls[1] = "ToHTML"
          /\ format = DiffStr => rendererCalls[1] = "ToDiff"
          /\ format = TableStr => rendererCalls[1] = "ToTable"
          /\ EqualFold(format, JsonStr) <=> rendererCalls[1] = "ToJSON"
          /\ EqualFold(format, HtmlStr) <=> rendererCalls[1] = "ToHTML"
          /\ EqualFold(format, DiffStr) <=> rendererCalls[1] = "ToDiff"
          /\ (~EqualFold(format, JsonStr) /\ ~EqualFold(format, HtmlStr)
                /\ ~EqualFold(format, DiffStr)) => rendererCalls[1] = "ToTable"
          /\ renderOut.err = NoErr =>
                /\ renderOut.b.by = rendererCalls[1]
                /\ renderOut.b.groups = combined.groups

\* An unrecognized identifier was rendered by ToTable.
C5_Witness ==
    /\ pc = "done" /\ format = <<"x", "m", "l">>
    /\ rendererCalls = <<"ToTable">> /\ stdout # <<>>

\* C6, as claimed: when no input path is resolved, the command ends with a
\* fatal error; Combine is not called on the empty input list and nothing
\* is rendered or printed.
C6_NoInputIsFatal ==
    (pc # "start" /\ inputFiles = <<>>) =>
        /\ NothingProduced
        /\ pc \in {"done", "exited"} => result.kind \in {"error", "exit"}

C8_TableWarningMatchesRenderer ==
    RenderingReached =>
        (HasWarning("FieldsOnlyTable")
            <=> (fieldsChanged /\ rendererCalls[1] # "ToTable"))

\* ---- main
LogHas(h) == \E i \in 1..Len(log) : log[i].h = h

C9_Safety ==
    \* one send at most, one receive at most, and on the unbuffered channel
    \* a send completes with its receive
    /\ sends <= 1 /\ recvs <= 1 /\ sends = recvs
    \* the channel is closed after the send, by the goroutine's last step:
    \* nothing is sent on a closed channel
    /\ chanClosed => sends = 1 /\ goPc = "end"
    /\ goPc = "end" => chanClosed
    \* the update message is handled once, after the error handlers
    /\ mainPc \in {"deferCLI", "deferRecover", "recv"} =>
          ~LogHas("handleUpdateMessage")
    /\ mainPc \in {"exit", "ended"} =>
          /\ recvs = 1
          /\ received = updateInfo
          /\ goPc \in {"close", "end"}
          /\ log[Len(log)].h = "handleUpdateMessage"
          /\ \A i \in 1..(Len(log) - 1) :
                log[i].h \in {"handleCLIError", "handleUnexpectedErr"}
          /\ appErr # "nil" => LogHas("handleCLIError")
          /\ unexpectedErr # "nil" => LogHas("handleUnexpectedErr")
    \* os.Exit(1) of the deferred function comes after it
    /\ (mainPc # "ended" /\ mainPc # "osExit") => exitCode = -1
    /\ mainPc = "ended" => LogHas("handleUpdateMessage")

\* C9: the goroutine sends once on the unbuffered channel and then closes
\* it, the deferred function receives once; on every path through the
\* deferred function the receive completes, the goroutine is not left
\* blocked on its send, nothing is sent on a closed channel, and the update
\* message is handled after the error handling and before os.Exit(1).
C9_UpdateMessageHandoff ==
    /\ []C9_Safety
    /\ (mainPc = "deferCLI") ~> (recvs = 1 /\ mainPc = "ended")

\* main recovered a panic, took the update message and exited with 1.
C9_Witness ==
    /\ mainPc = "ended" /\ exitCode = 1 /\ unexpectedErr = "panic"
    /\ recvs = 1 /\ received = "info" /\ chanClosed

\* C10, as claimed: an error of cfg.LoadFromEnv is reported through
\* handleCLIError and the process exits with status 1 whatever Execute
\* returns; the process exits with status 1 exactly when an error was
\* recorded in appErr during the run or a panic was recovered.
C10_LoadErrorReported ==
    mainPc = "ended" =>
        /\ loadErr # "nil" =>
              /\ \E i \in 1..Len(log) :
                    log[i] = Handled("handleCLIError", "LoadFromEnvErr")
              /\ exitCode = 1
        /\ (exitCode = 1) <=>
              (loadErr # "nil" \/ execOutcome = "error" \/ execOutcome = "panic")
====
